---- MODULE Spec2Model ----
(***************************************************************************)
(* Model of py_gamma_sdk/client.py: the Gamma API client (GammaClient and  *)
(* its sub-clients), its transport mediation (_request), the decoding of   *)
(* responses by the sub-clients, URL resolution and the client lifecycle.  *)
(* AsyncGammaClient and its sub-clients repeat the same statements with    *)
(* an await at each _request and at close; a call is modelled in steps     *)
(* that end where the transport is awaited, which covers both.             *)
(*                                                                         *)
(* Strings are modelled as sequences of tokens.  A token is an atom of     *)
(* text that holds no separator: "/" is the path separator, "\"" the quote *)
(* character, every other token a run of ordinary characters.              *)
(***************************************************************************)
EXTENDS Integers, Sequences, FiniteSets, TLC

\* Longest URL path, in tokens, that resolve_url is called with.
MaxPathLen == 3
\* Longest JSON array the remote answers with.
MaxItems == 2

(***************************************************************************)
(* Python values                                                           *)
(***************************************************************************)
\* One shape for every value so that any two values can be compared:
\*   k = "none"   Python None
\*   k = "obj"    a JSON object (dict); id names which one
\*   k = "str"    a string; text holds its tokens
\*   k = "list"   a list; items holds its elements
\*   k = "entity" a typed record built by a model class; typ is the class
Val(k, typ, id, items, text) ==
    [k |-> k, typ |-> typ, id |-> id, items |-> items, text |-> text]

None == Val("none", "", "", <<>>, <<>>)
JObj(i) == Val("obj", "", i, <<>>, <<>>)
JStr(t) == Val("str", "", "", <<>>, t)
JList(s) == Val("list", "", "", s, <<>>)
Entity(typ, i) == Val("entity", typ, i, <<>>, <<>>)

\* The objects the remote answers with: {}, an object holding the fields of
\* a resource, and {"marketTypes": ["a", "b"]}.
EmptyObj == "empty"
ResourceObj == "resource"
MarketTypesObj == "marketTypes"
ObjIds == {EmptyObj, ResourceObj, MarketTypesObj}

\* Elements the remote puts in arrays.
JsonItems == {JObj(ResourceObj), JObj(MarketTypesObj), JStr(<<"s">>)}

SeqsUpTo(S, n) == UNION {[1..m -> S] : m \in 0..n}

JsonValues ==
    {JObj(i) : i \in ObjIds} \cup {JStr(<<"s">>), None}
        \cup {JList(s) : s \in SeqsUpTo(JsonItems, MaxItems)}

(***************************************************************************)
(* JSON text                                                               *)
(***************************************************************************)
SerializeItem(v) ==
    CASE v.k = "obj" /\ v.id = EmptyObj -> <<"{}">>
      [] v.k = "obj" /\ v.id = ResourceObj -> <<"{a}">>
      [] v.k = "obj" /\ v.id = MarketTypesObj -> <<"{mt}">>
      [] v.k = "str" -> <<"\"">> \o v.text \o <<"\"">>
      [] OTHER -> <<"null">>

RECURSIVE SerializeItems(_)
SerializeItems(s) ==
    IF s = <<>> THEN <<>>
    ELSE IF Len(s) = 1 THEN SerializeItem(s[1])
    ELSE SerializeItem(s[1]) \o <<",">> \o SerializeItems(Tail(s))

Serialize(v) ==
    IF v.k = "list" THEN <<"[">> \o SerializeItems(v.items) \o <<"]">>
    ELSE SerializeItem(v)

\* Bodies that are not JSON: an HTML page and an empty body.
MalformedTexts == {<<"<html>">>, <<>>}

BodyTexts == {Serialize(v) : v \in JsonValues} \cup MalformedTexts

\* response.json(): the value a body text denotes, or JSONDecodeError.
ParsesAsJson(text) == \E v \in JsonValues : Serialize(v) = text
ParseJson(text) == CHOOSE v \in JsonValues : Serialize(v) = text

\* str.strip(c): drop every leading and every trailing token c.
RECURSIVE LStrip(_, _)
LStrip(t, c) ==
    IF t # <<>> /\ t[1] = c THEN LStrip(Tail(t), c) ELSE t

RECURSIVE RStrip(_, _)
RStrip(t, c) ==
    IF t # <<>> /\ t[Len(t)] = c THEN RStrip(SubSeq(t, 1, Len(t) - 1), c)
    ELSE t

Strip(t, c) == RStrip(LStrip(t, c), c)

\* response.text.strip('"')
StripQuotes(t) == Strip(t, "\"")

(***************************************************************************)
(* Exceptions and results                                                  *)
(***************************************************************************)
\* The SDK's exception classes: GammaError and its subclasses.
IsGammaError(e) ==
    e \in {"GammaError", "GammaAPIError", "NotFoundError", "ValidationError"}

\* What an `except Exception` clause catches.  "Interrupt" stands for the
\* exceptions that derive from BaseException only: KeyboardInterrupt,
\* SystemExit and asyncio.CancelledError.
IsException(e) == e # "Interrupt"

\* The outcome of a call: a returned value, or a raised exception with the
\* status code and response text it carries (NoStatus, NoText when it
\* carries none).
NoStatus == -1
NoText == <<"None">>

Pending == [kind |-> "none", exc |-> "", status |-> NoStatus, text |-> NoText, value |-> None]
Returned(v) == [kind |-> "return", exc |-> "", status |-> NoStatus, text |-> NoText, value |-> v]
Raised(e, status, text) ==
    [kind |-> "raise", exc |-> e, status |-> status, text |-> text, value |-> None]

(***************************************************************************)
(* The transport: what self._http_client.request produces                  *)
(***************************************************************************)
Statuses == {200, 302, 404, 500}

\* Content-Type headers, as token sequences; <<>> is an absent header.
JsonType == "application/json"
ContentTypes == {<<JsonType, "; charset=utf-8">>, <<"text/html">>, <<>>}

\* A response, or the exception the transport raised instead of one.
Response(status, ctype, text) ==
    [fail |-> "", status |-> status, ctype |-> ctype, text |-> text]
TransportFailure(e) ==
    [fail |-> e, status |-> NoStatus, ctype |-> <<>>, text |-> <<>>]

Responses ==
    {Response(st, ct, t) : st \in Statuses, ct \in ContentTypes, t \in BodyTexts}

\* ConnectError: any httpx.TransportError (DNS, reset, timeout).
TransportFailures == {TransportFailure("ConnectError"), TransportFailure("Interrupt")}

\* A closed httpx client refuses to send: RuntimeError.
TransportResults(isClosed) ==
    IF isClosed THEN {TransportFailure("RuntimeError")}
    ELSE Responses \cup TransportFailures

\* response.raise_for_status(): HTTPStatusError unless the status is 2xx.
IsSuccess(status) == status >= 200 /\ status <= 299

\* "application/json" in content_type
IsJsonContentType(ctype) == \E i \in 1..Len(ctype) : ctype[i] = JsonType

(***************************************************************************)
(* GammaClient._request                                                    *)
(***************************************************************************)
\* The body of the try block: the value returned, or the exception raised
\* inside it (before any except clause has acted).
RequestTry(resp) ==
    IF resp.fail # "" THEN Raised(resp.fail, NoStatus, NoText)
    ELSE IF resp.status = 404 THEN Raised("NotFoundError", 404, NoText)
    ELSE IF ~IsSuccess(resp.status) THEN Raised("HTTPStatusError", resp.status, resp.text)
    ELSE IF IsJsonContentType(resp.ctype)
         THEN IF ParsesAsJson(resp.text) THEN Returned(ParseJson(resp.text))
              ELSE Raised("JSONDecodeError", NoStatus, NoText)
    ELSE Returned(JStr(StripQuotes(resp.text)))

\* The except clauses, in the order they are written.
RequestExceptNoReraise(r) ==
    IF r.kind # "raise" THEN r
    ELSE IF r.exc = "HTTPStatusError" THEN Raised("GammaAPIError", r.status, r.text)
    ELSE IF IsException(r.exc) THEN Raised("GammaAPIError", NoStatus, NoText)
    ELSE r

RequestExceptNoStatusClause(r) ==
    IF r.kind # "raise" THEN r
    ELSE IF IsGammaError(r.exc) THEN r
    ELSE IF IsException(r.exc) THEN Raised("GammaAPIError", NoStatus, NoText)
    ELSE r

RequestExceptNoCatchAll(r) ==
    IF r.kind # "raise" THEN r
    ELSE IF r.exc = "HTTPStatusError" THEN Raised("GammaAPIError", r.status, r.text)
    ELSE r

RequestExcept(r) ==
    IF r.kind # "raise" THEN r
    ELSE IF r.exc = "HTTPStatusError" THEN Raised("GammaAPIError", r.status, r.text)
    ELSE IF IsGammaError(r.exc) THEN r
    ELSE IF IsException(r.exc) THEN Raised("GammaAPIError", NoStatus, NoText)
    ELSE r

Request(resp) == RequestExcept(RequestTry(resp))

(***************************************************************************)
(* Decoding by the sub-clients                                             *)
(***************************************************************************)
\* T(**data): a model class built from a mapping.  Any mapping is accepted
\* (absent and unknown fields take defaults); anything else is a TypeError.
Construct(typ, v) ==
    IF v.k = "obj" THEN Returned(Entity(typ, v.id))
    ELSE Raised("TypeError", NoStatus, NoText)

\* What `for item in data` iterates over: the elements of a list, the keys
\* of a mapping (strings), the characters of a string; None is not iterable.
Iterable(v) == v.k \in {"list", "obj", "str"}
IterItems(v) ==
    CASE v.k = "list" -> v.items
      [] v.k = "obj" -> IF v.id = EmptyObj THEN <<>> ELSE <<JStr(<<"key">>)>>
      [] v.k = "str" -> [i \in 1..Len(v.text) |-> JStr(<<v.text[i]>>)]
      [] OTHER -> <<>>

\* [T(**item) for item in data]
DecodeList(typ, v) ==
    IF ~Iterable(v) THEN Raised("TypeError", NoStatus, NoText)
    ELSE LET items == IterItems(v) IN
         IF \E i \in 1..Len(items) : Construct(typ, items[i]).kind = "raise"
         THEN Raised("TypeError", NoStatus, NoText)
         ELSE Returned(JList([i \in 1..Len(items) |-> Construct(typ, items[i]).value]))

\* data.get("marketTypes", [])
DecodeMarketTypes(v) ==
    IF v.k # "obj" THEN Raised("AttributeError", NoStatus, NoText)
    ELSE IF v.id = MarketTypesObj
         THEN Returned(JList(<<JStr(<<"a">>), JStr(<<"b">>)>>))
         ELSE Returned(JList(<<>>))

\* MarketsClient.get_by_slug, applied to what _request produced.
MarketsGetBySlugLast(r) ==
    IF r.kind = "raise" THEN r
    ELSE IF r.value.k = "list"
         THEN IF r.value.items # <<>>
              THEN Construct("Market", r.value.items[Len(r.value.items)])
              ELSE Returned(None)
    ELSE Construct("Market", r.value)

MarketsGetBySlug(r) ==
    IF r.kind = "raise" THEN r
    ELSE IF r.value.k = "list"
         THEN IF r.value.items # <<>>
              THEN Construct("Market", r.value.items[1])
              ELSE Returned(None)
    ELSE Construct("Market", r.value)

\* EventsClient.get_by_slug, applied to what _request produced.
EventsGetBySlug(r) ==
    IF r.kind = "raise" THEN r ELSE Construct("Event", r.value)

(***************************************************************************)
(* The public operations                                                   *)
(***************************************************************************)
\* shape: how the method turns the decoded response into its result
\*   "raw" returns it as is, "one" builds T(**data), "list" builds
\*   [T(**item) for item in data], "types" reads the marketTypes field,
\*   "market" is MarketsClient.get_by_slug.
\* pre, post: the endpoint around the identifier; arg: whether the method
\* takes an identifier; params: whether it passes query parameters.
Op(shape, typ, pre, arg, post, params) ==
    [shape |-> shape, typ |-> typ, pre |-> pre, arg |-> arg, post |-> post,
     params |-> params]

Ops ==
    [ sports_list_teams |-> Op("list", "Team", <<"teams">>, FALSE, <<>>, TRUE),
      sports_get_metadata |-> Op("list", "SportMetadata", <<"sports">>, FALSE, <<>>, FALSE),
      sports_get_market_types |-> Op("types", "", <<"sports", "market-types">>, FALSE, <<>>, FALSE),
      tags_list |-> Op("list", "Tag", <<"tags">>, FALSE, <<>>, TRUE),
      tags_get_by_id |-> Op("one", "Tag", <<"tags">>, TRUE, <<>>, FALSE),
      tags_get_by_slug |-> Op("one", "Tag", <<"tags", "slug">>, TRUE, <<>>, FALSE),
      tags_get_related_by_id |-> Op("raw", "", <<"tags-related-tag-id">>, TRUE, <<>>, FALSE),
      tags_get_related_by_slug |-> Op("raw", "", <<"tags-related-tag-slug">>, TRUE, <<>>, FALSE),
      tags_get_tags_related_to_id |-> Op("list", "Tag", <<"tags">>, TRUE, <<"related">>, FALSE),
      tags_get_tags_related_to_slug |-> Op("list", "Tag", <<"tags", "slug">>, TRUE, <<"related">>, FALSE),
      events_list |-> Op("list", "Event", <<"events">>, FALSE, <<>>, TRUE),
      events_get_by_id |-> Op("one", "Event", <<"events">>, TRUE, <<>>, FALSE),
      events_get_tags |-> Op("list", "Tag", <<"events">>, TRUE, <<"tags">>, FALSE),
      events_get_by_slug |-> Op("one", "Event", <<"events", "slug">>, TRUE, <<>>, FALSE),
      markets_list |-> Op("list", "Market", <<"markets">>, FALSE, <<>>, TRUE),
      markets_get_by_id |-> Op("one", "Market", <<"markets">>, TRUE, <<>>, FALSE),
      markets_get_tags |-> Op("list", "Tag", <<"markets">>, TRUE, <<"tags">>, FALSE),
      markets_get_by_slug |-> Op("market", "Market", <<"markets", "slug">>, TRUE, <<>>, FALSE),
      series_list |-> Op("list", "Series", <<"series">>, FALSE, <<>>, TRUE),
      series_get_by_id |-> Op("one", "Series", <<"series">>, TRUE, <<>>, FALSE),
      comments_list |-> Op("list", "Comment", <<"comments">>, FALSE, <<>>, TRUE),
      comments_get_by_id |-> Op("one", "Comment", <<"comments">>, TRUE, <<>>, FALSE),
      comments_get_by_user |-> Op("list", "Comment", <<"comments", "user">>, TRUE, <<>>, FALSE),
      profiles_get_by_address |-> Op("one", "Profile", <<"profiles">>, TRUE, <<>>, FALSE),
      get_status |-> Op("raw", "", <<"status">>, FALSE, <<>>, FALSE),
      search |-> Op("raw", "", <<"search">>, FALSE, <<>>, TRUE) ]

OpNames == DOMAIN Ops

\* The path of the endpoint, as its segments.
Endpoint(op, arg) ==
    Ops[op].pre \o (IF Ops[op].arg THEN arg ELSE <<>>) \o Ops[op].post

\* A request as handed to the transport.
Req(method, path, params) == [method |-> method, path |-> path, params |-> params]

\* search: params["q"] = query
SearchParams(query, params) ==
    {kv \in params : kv[1] # "q"} \cup {<<"q", query>>}

\* The method's result from what _request produced.
Decode(op, r) ==
    IF r.kind = "raise" THEN r
    ELSE CASE Ops[op].shape = "raw" -> Returned(r.value)
           [] Ops[op].shape = "one" -> Construct(Ops[op].typ, r.value)
           [] Ops[op].shape = "list" -> DecodeList(Ops[op].typ, r.value)
           [] Ops[op].shape = "types" -> DecodeMarketTypes(r.value)
           [] Ops[op].shape = "market" -> MarketsGetBySlug(r)

(***************************************************************************)
(* GammaClient._extract_slug_from_url and resolve_url                      *)
(***************************************************************************)
\* A URL: whether urlparse accepts it, and the path it yields.
PathTokens == {"/", "market", "event", "x"}
Urls ==
    {[parses |-> TRUE, path |-> p] : p \in SeqsUpTo(PathTokens, MaxPathLen)}
        \cup {[parses |-> FALSE, path |-> <<>>]}

\* str.split("/"): the segments between the separators; never empty.
RECURSIVE Split(_)
Split(t) ==
    IF \A i \in 1..Len(t) : t[i] # "/" THEN <<t>>
    ELSE LET i == CHOOSE j \in 1..Len(t) :
                      t[j] = "/" /\ \A k \in 1..(j - 1) : t[k] # "/"
         IN <<SubSeq(t, 1, i - 1)>> \o Split(SubSeq(t, i + 1, Len(t)))

\* An extracted slug, or None.
NoSlug == [some |-> FALSE, seg |-> <<>>]
Slug(seg) == [some |-> TRUE, seg |-> seg]

ExtractSlugNoLengthCheck(url) ==
    IF ~url.parses THEN NoSlug
    ELSE LET path_parts == Split(Strip(url.path, "/")) IN
         IF path_parts[1] \in {<<"market">>, <<"event">>}
         THEN Slug(path_parts[Len(path_parts)])
         ELSE NoSlug

ExtractSlug(url) ==
    IF ~url.parses THEN NoSlug
    ELSE LET path_parts == Split(Strip(url.path, "/")) IN
         IF Len(path_parts) >= 2 /\ path_parts[1] \in {<<"market">>, <<"event">>}
         THEN Slug(path_parts[Len(path_parts)])
         ELSE NoSlug

\* `not slug`: None and the empty string are both falsy.
NotSlug(slug) == ~slug.some \/ slug.seg = <<>>

\* try: return <lookup> / except Exception: pass -- whether the failure of
\* a lookup is suppressed, so that resolve_url goes on to its next step.
FallsThroughAlways(r) == TRUE
FallsThroughNotFoundOnly(r) == r.kind = "raise" /\ r.exc = "NotFoundError"
FallsThrough(r) == r.kind = "raise" /\ IsException(r.exc)

\* What is kept of a lookup's outcome once resolve_url has moved past it.
NoLookup == [kind |-> "none", exc |-> ""]
Lookup(r) == [kind |-> r.kind, exc |-> r.exc]

(***************************************************************************)
(* Lifecycle: close, __enter__, __exit__                                   *)
(***************************************************************************)
\* __exit__(exc_type, exc_val, exc_tb): calls close() and returns None, a
\* falsy value, so the exception that left the body is not suppressed.
ExitWithoutClose(exc) == [closes |-> FALSE, suppress |-> FALSE]
Exit(exc) == [closes |-> TRUE, suppress |-> FALSE]

(***************************************************************************)
(* AsyncGammaClient and its sub-clients                                    *)
(***************************************************************************)
\* AsyncGammaClient._request: the try block around the awaited request,
AsyncRequestTry(resp) ==
    IF resp.fail # "" THEN Raised(resp.fail, NoStatus, NoText)
    ELSE IF resp.status = 404 THEN Raised("NotFoundError", 404, NoText)
    ELSE IF ~IsSuccess(resp.status) THEN Raised("HTTPStatusError", resp.status, resp.text)
    ELSE IF IsJsonContentType(resp.ctype)
         THEN IF ParsesAsJson(resp.text) THEN Returned(ParseJson(resp.text))
              ELSE Raised("JSONDecodeError", NoStatus, NoText)
    ELSE Returned(JStr(StripQuotes(resp.text)))

\* ... and its except clauses, in the order they are written.
AsyncRequestExcept(r) ==
    IF r.kind # "raise" THEN r
    ELSE IF r.exc = "HTTPStatusError" THEN Raised("GammaAPIError", r.status, r.text)
    ELSE IF IsGammaError(r.exc) THEN r
    ELSE IF IsException(r.exc) THEN Raised("GammaAPIError", NoStatus, NoText)
    ELSE r

AsyncRequest(resp) == AsyncRequestExcept(AsyncRequestTry(resp))

\* [T(**item) for item in data] in the async sub-clients.
AsyncDecodeList(typ, v) ==
    IF ~Iterable(v) THEN Raised("TypeError", NoStatus, NoText)
    ELSE LET items == IterItems(v) IN
         IF \E i \in 1..Len(items) : Construct(typ, items[i]).kind = "raise"
         THEN Raised("TypeError", NoStatus, NoText)
         ELSE Returned(JList([i \in 1..Len(items) |-> Construct(typ, items[i]).value]))

\* AsyncSportsClient.get_market_types: data.get("marketTypes", [])
AsyncDecodeMarketTypes(v) ==
    IF v.k # "obj" THEN Raised("AttributeError", NoStatus, NoText)
    ELSE IF v.id = MarketTypesObj
         THEN Returned(JList(<<JStr(<<"a">>), JStr(<<"b">>)>>))
         ELSE Returned(JList(<<>>))

\* AsyncMarketsClient.get_by_slug, applied to what _request produced.
AsyncMarketsGetBySlug(r) ==
    IF r.kind = "raise" THEN r
    ELSE IF r.value.k = "list"
         THEN IF r.value.items # <<>>
              THEN Construct("Market", r.value.items[1])
              ELSE Returned(None)
    ELSE Construct("Market", r.value)

\* AsyncEventsClient.get_by_slug, applied to what _request produced.
AsyncEventsGetBySlug(r) ==
    IF r.kind = "raise" THEN r ELSE Construct("Event", r.value)

\* The async public operations, read off the async classes.
AsyncOps ==
    [ sports_list_teams |-> Op("list", "Team", <<"teams">>, FALSE, <<>>, TRUE),
      sports_get_metadata |-> Op("list", "SportMetadata", <<"sports">>, FALSE, <<>>, FALSE),
      sports_get_market_types |-> Op("types", "", <<"sports", "market-types">>, FALSE, <<>>, FALSE),
      tags_list |-> Op("list", "Tag", <<"tags">>, FALSE, <<>>, TRUE),
      tags_get_by_id |-> Op("one", "Tag", <<"tags">>, TRUE, <<>>, FALSE),
      tags_get_by_slug |-> Op("one", "Tag", <<"tags", "slug">>, TRUE, <<>>, FALSE),
      tags_get_related_by_id |-> Op("raw", "", <<"tags-related-tag-id">>, TRUE, <<>>, FALSE),
      tags_get_related_by_slug |-> Op("raw", "", <<"tags-related-tag-slug">>, TRUE, <<>>, FALSE),
      tags_get_tags_related_to_id |-> Op("list", "Tag", <<"tags">>, TRUE, <<"related">>, FALSE),
      tags_get_tags_related_to_slug |-> Op("list", "Tag", <<"tags", "slug">>, TRUE, <<"related">>, FALSE),
      events_list |-> Op("list", "Event", <<"events">>, FALSE, <<>>, TRUE),
      events_get_by_id |-> Op("one", "Event", <<"events">>, TRUE, <<>>, FALSE),
      events_get_tags |-> Op("list", "Tag", <<"events">>, TRUE, <<"tags">>, FALSE),
      events_get_by_slug |-> Op("one", "Event", <<"events", "slug">>, TRUE, <<>>, FALSE),
      markets_list |-> Op("list", "Market", <<"markets">>, FALSE, <<>>, TRUE),
      markets_get_by_id |-> Op("one", "Market", <<"markets">>, TRUE, <<>>, FALSE),
      markets_get_tags |-> Op("list", "Tag", <<"markets">>, TRUE, <<"tags">>, FALSE),
      markets_get_by_slug |-> Op("market", "Market", <<"markets", "slug">>, TRUE, <<>>, FALSE),
      series_list |-> Op("list", "Series", <<"series">>, FALSE, <<>>, TRUE),
      series_get_by_id |-> Op("one", "Series", <<"series">>, TRUE, <<>>, FALSE),
      comments_list |-> Op("list", "Comment", <<"comments">>, FALSE, <<>>, TRUE),
      comments_get_by_id |-> Op("one", "Comment", <<"comments">>, TRUE, <<>>, FALSE),
      comments_get_by_user |-> Op("list", "Comment", <<"comments", "user">>, TRUE, <<>>, FALSE),
      profiles_get_by_address |-> Op("one", "Profile", <<"profiles">>, TRUE, <<>>, FALSE),
      get_status |-> Op("raw", "", <<"status">>, FALSE, <<>>, FALSE),
      search |-> Op("raw", "", <<"search">>, FALSE, <<>>, TRUE) ]

AsyncEndpoint(o, arg) ==
    AsyncOps[o].pre \o (IF AsyncOps[o].arg THEN arg ELSE <<>>) \o AsyncOps[o].post

\* AsyncGammaClient.search: params["q"] = query
AsyncSearchParams(query, params) ==
    {kv \in params : kv[1] # "q"} \cup {<<"q", query>>}

\* The query parameters an async method hands to _request.
AsyncParams(o, ps, q) ==
    IF o = "search" THEN AsyncSearchParams(q, ps)
    ELSE IF AsyncOps[o].params THEN ps
    ELSE {}

AsyncDecode(o, r) ==
    IF r.kind = "raise" THEN r
    ELSE CASE AsyncOps[o].shape = "raw" -> Returned(r.value)
           [] AsyncOps[o].shape = "one" -> Construct(AsyncOps[o].typ, r.value)
           [] AsyncOps[o].shape = "list" -> AsyncDecodeList(AsyncOps[o].typ, r.value)
           [] AsyncOps[o].shape = "types" -> AsyncDecodeMarketTypes(r.value)
           [] AsyncOps[o].shape = "market" -> AsyncMarketsGetBySlug(r)

\* AsyncGammaClient._extract_slug_from_url
AsyncExtractSlug(u) ==
    IF ~u.parses THEN NoSlug
    ELSE LET path_parts == Split(Strip(u.path, "/")) IN
         IF Len(path_parts) >= 2 /\ path_parts[1] \in {<<"market">>, <<"event">>}
         THEN Slug(path_parts[Len(path_parts)])
         ELSE NoSlug

\* AsyncGammaClient.resolve_url: except Exception: pass
AsyncFallsThrough(r) == r.kind = "raise" /\ IsException(r.exc)

\* AsyncGammaClient.__aexit__: awaits close() and returns None.
AsyncExit(exc) == [closes |-> TRUE, suppress |-> FALSE]

(***************************************************************************)
(* State                                                                   *)
(***************************************************************************)
VARIABLES
    pc,          \* the caller: "idle", "await" (a request is in flight), "done"
    op,          \* the public operation in progress, "" when idle
    url,         \* resolve_url's argument
    phase,       \* "single", or resolve_url's "market" / "event" step, or ""
    reqLog,      \* the requests the call in progress has handed to the transport
    lastResp,    \* what the transport produced for the latest request
    lastResult,  \* what _request produced from lastResp
    mktLookup,   \* resolve_url: how markets.get_by_slug ended
    evtLookup,   \* resolve_url: how events.get_by_slug ended
    outcome,     \* what the operation gave its caller
    scope,       \* the with block: "out" (not entered), "in", "left"
    closed,      \* whether the underlying HTTP client is closed
    bodyExc,     \* the exception that left the with body, "" if none
    propagated,  \* the exception the with statement raised to its caller
    \* An AsyncGammaClient given the same calls and the same answers:
    aPc,         \* its caller's position
    aPhase,      \* its step, as phase
    aReqLog,     \* the requests its call in progress has handed over
    aOutcome,    \* what its operation gave its caller
    aClosed      \* whether its HTTP client is closed

vars == <<pc, op, url, phase, reqLog, lastResp, lastResult, mktLookup,
          evtLookup, outcome, scope, closed, bodyExc, propagated,
          aPc, aPhase, aReqLog, aOutcome, aClosed>>

callVars == <<pc, op, url, phase, reqLog, lastResp, lastResult, mktLookup,
              evtLookup, outcome>>
scopeVars == <<scope, closed, bodyExc, propagated>>
asyncCallVars == <<aPc, aPhase, aReqLog, aOutcome>>

NoUrl == [parses |-> FALSE, path |-> <<"-">>]
NoResp == TransportFailure("")

Ids == {<<"x">>}
Filters == {{}, {<<"limit", "1">>}}
Queries == {"Politics"}

Idle ==
    /\ pc = "idle"
    /\ op = ""
    /\ url = NoUrl
    /\ phase = ""
    /\ reqLog = <<>>
    /\ lastResp = NoResp
    /\ lastResult = Pending
    /\ mktLookup = NoLookup
    /\ evtLookup = NoLookup
    /\ outcome = Pending

\* The call in progress is over: its locals are gone.
ResetCall ==
    /\ pc' = "idle"
    /\ op' = ""
    /\ url' = NoUrl
    /\ phase' = ""
    /\ reqLog' = <<>>
    /\ lastResp' = NoResp
    /\ lastResult' = Pending
    /\ mktLookup' = NoLookup
    /\ evtLookup' = NoLookup
    /\ outcome' = Pending

\* GammaClient() and AsyncGammaClient(): an open transport each, no call in
\* progress.
Init ==
    /\ Idle
    /\ scope = "out"
    /\ closed = FALSE
    /\ bodyExc = ""
    /\ propagated = ""
    /\ aPc = "idle"
    /\ aPhase = ""
    /\ aReqLog = <<>>
    /\ aOutcome = Pending
    /\ aClosed = FALSE

(***************************************************************************)
(* Operations                                                              *)
(***************************************************************************)
\* A sub-client method, get_status or search is called: it hands its one
\* request to the transport.
Call(o, a, ps, q) ==
    /\ pc = "idle"
    /\ pc' = "await"
    /\ op' = o
    /\ phase' = "single"
    /\ reqLog' = <<Req("GET", Endpoint(o, a),
                       IF o = "search" THEN SearchParams(q, ps) ELSE ps)>>
    /\ UNCHANGED <<url, lastResp, lastResult, mktLookup, evtLookup, outcome>>
    /\ UNCHANGED scopeVars

\* resolve_url is called: ValidationError without a slug, else the market
\* lookup's request is handed to the transport.
CallResolveUrl(u) ==
    /\ pc = "idle"
    /\ op' = "resolve_url"
    /\ url' = u
    /\ LET slug == ExtractSlug(u) IN
       IF NotSlug(slug)
       THEN /\ pc' = "done"
            /\ phase' = ""
            /\ reqLog' = <<>>
            /\ outcome' = Raised("ValidationError", NoStatus, NoText)
       ELSE /\ pc' = "await"
            /\ phase' = "market"
            /\ reqLog' = <<Req("GET", Endpoint("markets_get_by_slug", slug.seg), {})>>
            /\ outcome' = outcome
    /\ UNCHANGED <<lastResp, lastResult, mktLookup, evtLookup>>
    /\ UNCHANGED scopeVars

\* The transport answers the request in flight; _request and the method
\* that called it run to their end.
Respond(resp) ==
    /\ pc = "await"
    /\ phase = "single"
    /\ lastResp' = resp
    /\ lastResult' = Request(resp)
    /\ outcome' = Decode(op, Request(resp))
    /\ pc' = "done"
    /\ UNCHANGED <<op, url, phase, reqLog, mktLookup, evtLookup>>
    /\ UNCHANGED scopeVars

\* resolve_url, first try block: the market lookup ends; on a suppressed
\* failure the event lookup's request is handed to the transport.
RespondMarket(resp) ==
    /\ pc = "await"
    /\ phase = "market"
    /\ LET m == MarketsGetBySlug(Request(resp)) IN
       /\ mktLookup' = Lookup(m)
       /\ IF FallsThrough(m)
          THEN \* the first _request's response is gone with its frame
               /\ pc' = "await"
               /\ phase' = "event"
               /\ reqLog' = Append(reqLog,
                      Req("GET", Endpoint("events_get_by_slug", ExtractSlug(url).seg), {}))
               /\ lastResp' = NoResp
               /\ lastResult' = Pending
               /\ outcome' = outcome
          ELSE /\ pc' = "done"
               /\ phase' = phase
               /\ reqLog' = reqLog
               /\ lastResp' = resp
               /\ lastResult' = Request(resp)
               /\ outcome' = m
    /\ UNCHANGED <<op, url, evtLookup>>
    /\ UNCHANGED scopeVars

\* resolve_url, second try block: the event lookup ends; a suppressed
\* failure becomes None.
RespondEvent(resp) ==
    /\ pc = "await"
    /\ phase = "event"
    /\ lastResp' = resp
    /\ lastResult' = Request(resp)
    /\ LET e == EventsGetBySlug(Request(resp)) IN
       /\ evtLookup' = Lookup(e)
       /\ outcome' = IF FallsThrough(e) THEN Returned(None) ELSE e
    /\ pc' = "done"
    /\ UNCHANGED <<op, url, phase, reqLog, mktLookup>>
    /\ UNCHANGED scopeVars

\* The caller takes the result, or catches the error, and goes on.
Return ==
    /\ pc = "done"
    /\ ResetCall
    /\ UNCHANGED scopeVars

\* with GammaClient() as client: __enter__ returns self.
Enter ==
    /\ scope = "out"
    /\ ~closed
    /\ pc = "idle"
    /\ scope' = "in"
    /\ UNCHANGED <<closed, bodyExc, propagated>>
    /\ UNCHANGED callVars

\* The with body ends normally: __exit__(None, None, None).
ExitNormal ==
    /\ scope = "in"
    /\ pc = "idle"
    /\ scope' = "left"
    /\ closed' = (closed \/ Exit("").closes)
    /\ bodyExc' = ""
    /\ propagated' = ""
    /\ UNCHANGED callVars

\* An exception leaves the with body: __exit__ runs with it.
ExitWith(e) ==
    /\ scope' = "left"
    /\ closed' = (closed \/ Exit(e).closes)
    /\ bodyExc' = e
    /\ propagated' = IF Exit(e).suppress THEN "" ELSE e
    /\ ResetCall

\* ... an error of an SDK call that the body does not catch,
ExitBySdkError ==
    /\ scope = "in"
    /\ pc = "done"
    /\ outcome.kind = "raise"
    /\ ExitWith(outcome.exc)

\* ... or an error of the body's own code.
ExitByBodyError ==
    /\ scope = "in"
    /\ pc = "idle"
    /\ ExitWith("BodyError")

\* client.close() outside a with block.
Close ==
    /\ scope = "out"
    /\ pc = "idle"
    /\ ~closed
    /\ closed' = TRUE
    /\ UNCHANGED <<scope, bodyExc, propagated>>
    /\ UNCHANGED callVars

(***************************************************************************)
(* The same operations on the AsyncGammaClient.  Each is taken together    *)
(* with its GammaClient counterpart, on the same arguments and the same    *)
(* answer of the transport; a client that is not at the matching position  *)
(* is left as it is.                                                       *)
(***************************************************************************)
AsyncCall(o, a, ps, q) ==
    /\ IF aPc = "idle"
       THEN /\ aPc' = "await"
            /\ aPhase' = "single"
            /\ aReqLog' = <<Req("GET", AsyncEndpoint(o, a), AsyncParams(o, ps, q))>>
            /\ aOutcome' = aOutcome
       ELSE UNCHANGED asyncCallVars
    /\ UNCHANGED aClosed

AsyncCallResolveUrl(u) ==
    /\ IF aPc = "idle"
       THEN LET slug == AsyncExtractSlug(u) IN
            IF NotSlug(slug)
            THEN /\ aPc' = "done"
                 /\ aPhase' = ""
                 /\ aReqLog' = <<>>
                 /\ aOutcome' = Raised("ValidationError", NoStatus, NoText)
            ELSE /\ aPc' = "await"
                 /\ aPhase' = "market"
                 /\ aReqLog' = <<Req("GET", AsyncEndpoint("markets_get_by_slug", slug.seg), {})>>
                 /\ aOutcome' = aOutcome
       ELSE UNCHANGED asyncCallVars
    /\ UNCHANGED aClosed

\* The awaited request is answered: the coroutine runs to its next await
\* or to its end.
AsyncRespond(resp) ==
    /\ IF aPc # "await" THEN UNCHANGED asyncCallVars
       ELSE IF aPhase = "single"
       THEN /\ aOutcome' = AsyncDecode(op, AsyncRequest(resp))
            /\ aPc' = "done"
            /\ UNCHANGED <<aPhase, aReqLog>>
       ELSE IF aPhase = "market"
       THEN LET m == AsyncMarketsGetBySlug(AsyncRequest(resp)) IN
            IF AsyncFallsThrough(m)
            THEN /\ aPc' = "await"
                 /\ aPhase' = "event"
                 /\ aReqLog' = Append(aReqLog,
                        Req("GET", AsyncEndpoint("events_get_by_slug",
                                                 AsyncExtractSlug(url).seg), {}))
                 /\ aOutcome' = aOutcome
            ELSE /\ aPc' = "done"
                 /\ aOutcome' = m
                 /\ UNCHANGED <<aPhase, aReqLog>>
       ELSE LET e == AsyncEventsGetBySlug(AsyncRequest(resp)) IN
            /\ aOutcome' = IF AsyncFallsThrough(e) THEN Returned(None) ELSE e
            /\ aPc' = "done"
            /\ UNCHANGED <<aPhase, aReqLog>>
    /\ UNCHANGED aClosed

AsyncResetCall ==
    /\ aPc' = "idle"
    /\ aPhase' = ""
    /\ aReqLog' = <<>>
    /\ aOutcome' = Pending

AsyncReturn ==
    /\ AsyncResetCall
    /\ UNCHANGED aClosed

\* async with AsyncGammaClient() as client: __aenter__ returns self.
AsyncEnter == UNCHANGED <<aPc, aPhase, aReqLog, aOutcome, aClosed>>

\* __aexit__ after a body that ended normally,
AsyncExitNormal ==
    /\ aClosed' = (aClosed \/ AsyncExit("").closes)
    /\ UNCHANGED asyncCallVars

\* ... and after a body that an exception left.
AsyncExitBySdkError ==
    /\ aClosed' = (aClosed \/ AsyncExit(aOutcome.exc).closes)
    /\ AsyncResetCall

AsyncExitByBodyError ==
    /\ aClosed' = (aClosed \/ AsyncExit("BodyError").closes)
    /\ AsyncResetCall

\* await client.close() outside an async with block.
AsyncClose ==
    /\ aClosed' = TRUE
    /\ UNCHANGED asyncCallVars

Next ==
    \/ \E o \in OpNames, a \in Ids, ps \in Filters, q \in Queries :
          /\ Ops[o].params \/ ps = {}
          /\ Call(o, IF Ops[o].arg THEN a ELSE <<>>, ps, q)
          /\ AsyncCall(o, IF Ops[o].arg THEN a ELSE <<>>, ps, q)
    \/ \E u \in Urls : CallResolveUrl(u) /\ AsyncCallResolveUrl(u)
    \/ \E resp \in TransportResults(closed) : Respond(resp) /\ AsyncRespond(resp)
    \/ \E resp \in TransportResults(closed) : RespondMarket(resp) /\ AsyncRespond(resp)
    \/ \E resp \in TransportResults(closed) : RespondEvent(resp) /\ AsyncRespond(resp)
    \/ Return /\ AsyncReturn
    \/ Enter /\ AsyncEnter
    \/ ExitNormal /\ AsyncExitNormal
    \/ ExitBySdkError /\ AsyncExitBySdkError
    \/ ExitByBodyError /\ AsyncExitByBodyError
    \/ Close /\ AsyncClose

Spec == Init /\ [][Next]_vars

(***************************************************************************)
(* Properties                                                              *)
(***************************************************************************)
ResolveDone == op = "resolve_url" /\ pc = "done"
Answered == lastResp # NoResp /\ lastResp.fail = ""

MarketPath(u) == <<"markets", "slug">> \o ExtractSlug(u).seg
EventPath(u) == <<"events", "slug">> \o ExtractSlug(u).seg

\* C1: resolve_url asks for the Market by the slug first and for the Event
\* by the same slug second, and whenever it returns None both lookups were
\* attempted and both failed.
C1_NoneOnlyAfterBothLookupsFailed ==
    (op = "resolve_url" /\ reqLog # <<>>) =>
        /\ reqLog[1].path = MarketPath(url)
        /\ Len(reqLog) >= 2 => reqLog[2].path = EventPath(url)
        /\ (pc = "done" /\ outcome = Returned(None)) =>
              /\ Len(reqLog) = 2
              /\ mktLookup.kind = "raise"
              /\ evtLookup.kind = "raise"

\* C2: a response with status 404 makes _request raise NotFoundError with
\* status code 404, unchanged by the later except clauses, and the method
\* that issued the request raises it to its caller.
C2_NotFoundRaisedUnchanged ==
    (Answered /\ lastResp.status = 404) =>
        /\ lastResult = Raised("NotFoundError", 404, NoText)
        /\ (pc = "done" /\ phase = "single") => outcome = lastResult

C2_Witness ==
    /\ pc = "done"
    /\ op = "tags_get_by_id"
    /\ Answered
    /\ lastResp.status = 404
    /\ outcome.exc = "NotFoundError"
    /\ outcome.status = 404

\* The path's segments as runs of tokens between separators, counted
\* without splitting: a segment starts at each token that is no separator
\* and follows a separator or the start of the path.
SegmentStarts(path) ==
    {i \in 1..Len(path) : path[i] # "/" /\ (i = 1 \/ path[i - 1] = "/")}
FirstSegmentIs(path, words) ==
    \E i \in SegmentStarts(path) :
        /\ \A j \in SegmentStarts(path) : i <= j
        /\ path[i] \in words
        /\ (i = Len(path) \/ path[i + 1] = "/")
Unresolvable(path) ==
    \/ Cardinality(SegmentStarts(path)) < 2
    \/ ~FirstSegmentIs(path, {"market", "event"})

\* C3: resolve_url of a URL whose path has fewer than two segments, or whose
\* first segment is neither "market" nor "event", ends with ValidationError
\* and has handed no request to the transport.
C3_InvalidUrlFailsBeforeAnyRequest ==
    (op = "resolve_url" /\ url.parses /\ Unresolvable(url.path)) =>
        /\ pc = "done"
        /\ outcome = Raised("ValidationError", NoStatus, NoText)
        /\ reqLog = <<>>
        /\ lastResp = NoResp

C3_Witness ==
    /\ op = "resolve_url"
    /\ url.parses
    /\ url.path = <<"x", "/", "market">>
    /\ outcome.exc = "ValidationError"
    /\ reqLog = <<>>

\* C4: markets.get_by_slug returns None for an empty array, the Market built
\* from the first element for a non-empty array (whatever follows it), and
\* the Market built from the object for a bare object.
C4_MarketBySlugShapes ==
    (op = "markets_get_by_slug" /\ pc = "done" /\ lastResult.kind = "return") =>
        LET data == lastResult.value IN
        /\ (data.k = "list" /\ data.items = <<>>) => outcome = Returned(None)
        /\ (data.k = "list" /\ data.items # <<>> /\ data.items[1].k = "obj") =>
              outcome = Returned(Entity("Market", data.items[1].id))
        /\ data.k = "obj" => outcome = Returned(Entity("Market", data.id))

C4_Witness ==
    /\ op = "markets_get_by_slug"
    /\ pc = "done"
    /\ lastResult.kind = "return"
    /\ lastResult.value.items = <<JObj(ResourceObj), JObj(MarketTypesObj)>>
    /\ outcome = Returned(Entity("Market", ResourceObj))

\* C5: a response whose status is neither 2xx nor 404 makes _request raise
\* GammaAPIError carrying that status and the raw body; no value is returned.
C5_StatusErrorCarriesStatusAndBody ==
    (Answered /\ ~(lastResp.status \in 200..299) /\ lastResp.status # 404) =>
        lastResult = Raised("GammaAPIError", lastResp.status, lastResp.text)

C5_Witness ==
    /\ Answered
    /\ lastResp.status = 500
    /\ lastResp.text = <<"<html>">>
    /\ lastResult.exc = "GammaAPIError"
    /\ lastResult.status = 500
    /\ lastResult.text = <<"<html>">>

\* A failure inside _request that is neither a 404 nor a non-2xx status.
OtherFailure ==
    /\ lastResp # NoResp
    /\ \/ lastResp.fail # ""
       \/ /\ lastResp.status \in 200..299
          /\ lastResult.kind = "raise"

\* C6: every failure inside _request that is neither a 404 nor a non-2xx
\* status is wrapped into a generic GammaAPIError, and nothing but a
\* GammaError ever escapes _request.
C6_OnlyGammaErrorsEscapeRequest ==
    /\ OtherFailure => lastResult = Raised("GammaAPIError", NoStatus, NoText)
    /\ lastResult.kind = "raise" =>
          lastResult.exc \in {"GammaError", "GammaAPIError", "NotFoundError", "ValidationError"}

\* C6, amended: every failure inside _request that derives from Exception
\* and is neither a 404 nor a non-2xx status (connection failure, closed
\* client, malformed JSON) is wrapped into a generic GammaAPIError; the only
\* exceptions other than a GammaError that escape _request are those that
\* derive from BaseException alone, which pass through unchanged.
C6_ExceptionsWrappedInterruptsEscape ==
    /\ (OtherFailure /\ lastResp.fail # "Interrupt") =>
          lastResult = Raised("GammaAPIError", NoStatus, NoText)
    /\ (lastResult.kind = "raise" /\ lastResult.exc \notin
            {"GammaError", "GammaAPIError", "NotFoundError", "ValidationError"}) =>
          /\ lastResp.fail = "Interrupt"
          /\ lastResult = Raised("Interrupt", NoStatus, NoText)

C6_Witness ==
    /\ pc = "done"
    /\ op = "get_status"
    /\ lastResp.fail = "ConnectError"
    /\ outcome = Raised("GammaAPIError", NoStatus, NoText)

\* C7: once a slug has been extracted resolve_url never raises: a failed
\* Market lookup is followed by the Event lookup and a failed Event lookup
\* becomes None; ValidationError is the only error it raises.
C7_ResolveNeverRaisesWithSlug ==
    ResolveDone =>
        /\ reqLog # <<>> => outcome.kind = "return"
        /\ outcome.kind = "raise" => outcome.exc = "ValidationError"
        /\ mktLookup.kind = "raise" => Len(reqLog) = 2 /\ evtLookup # NoLookup
        /\ evtLookup.kind = "raise" => outcome = Returned(None)

\* C7, amended: once a slug has been extracted resolve_url raises no error
\* that derives from Exception: such a failure of the Market lookup is
\* followed by the Event lookup, and such a failure of the Event lookup
\* becomes None.  ValidationError is the only Exception it raises; an
\* exception deriving from BaseException alone passes through either lookup.
C7_ResolveSuppressesExceptions ==
    ResolveDone =>
        /\ outcome.kind = "raise" =>
              \/ outcome.exc = "ValidationError" /\ reqLog = <<>>
              \/ outcome.exc = "Interrupt" /\ reqLog # <<>>
        /\ (mktLookup.kind = "raise" /\ mktLookup.exc # "Interrupt") =>
              Len(reqLog) = 2 /\ evtLookup # NoLookup
        /\ (evtLookup.kind = "raise" /\ evtLookup.exc # "Interrupt") =>
              outcome = Returned(None)

C7_Witness ==
    /\ ResolveDone
    /\ mktLookup = [kind |-> "raise", exc |-> "TypeError"]
    /\ evtLookup = [kind |-> "raise", exc |-> "NotFoundError"]
    /\ outcome = Returned(None)

\* C8: once the with block is left, normally or by an exception raised in
\* its body, the HTTP client is closed, and the exception that left the body
\* is the one the caller of the with statement gets.
C8_ScopeExitReleasesTransport ==
    scope = "left" => closed /\ propagated = bodyExc

C8_Witness ==
    /\ scope = "left"
    /\ closed
    /\ bodyExc = "NotFoundError"
    /\ propagated = "NotFoundError"

\* C9: whatever response the remote gives, an error that a public method
\* raises to its caller is a GammaError: NotFoundError, GammaAPIError or
\* ValidationError.
C9_EveryErrorIsGammaError ==
    (pc = "done" /\ outcome.kind = "raise" /\ (lastResp = NoResp \/ lastResp.fail = "")) =>
        outcome.exc \in {"NotFoundError", "GammaAPIError", "ValidationError"}

\* C10: every operation but resolve_url hands exactly one request to the
\* transport per call; resolve_url hands over at most two, the Event
\* request only once the Market lookup has failed and never when it has
\* returned.
C10_OneRequestPerCallTwoForResolve ==
    /\ op \in OpNames => Len(reqLog) = 1
    /\ op = "resolve_url" =>
          /\ Len(reqLog) <= 2
          /\ (phase = "market" /\ pc = "await") =>
                Len(reqLog) = 1 /\ mktLookup = NoLookup
          /\ Len(reqLog) = 2 =>
                /\ mktLookup.kind = "raise"
                /\ reqLog[1].path = MarketPath(url)
                /\ reqLog[2].path = EventPath(url)
          /\ mktLookup.kind = "return" => Len(reqLog) = 1 /\ pc = "done"

C10_Witness ==
    /\ ResolveDone
    /\ Len(reqLog) = 2
    /\ mktLookup.kind = "raise"
    /\ evtLookup.kind = "return"
    /\ outcome.value.typ = "Event"

\* C11: given the same calls and the same answers of the transport, the
\* AsyncGammaClient is at every moment where the GammaClient is: it has
\* handed over the same requests (method, path, query parameters), it has
\* given its caller the same result or the same error, and its HTTP client
\* is closed exactly when the other's is.
C11_AsyncBehavesAsSync ==
    /\ aPc = pc
    /\ aPhase = phase
    /\ aReqLog = reqLog
    /\ aOutcome = outcome
    /\ aClosed = closed

C11_Witness ==
    /\ op = "resolve_url"
    /\ aPc = "done"
    /\ Len(aReqLog) = 2
    /\ aReqLog[2].path = <<"events", "slug", "x">>
    /\ aOutcome = Returned(Entity("Event", ResourceObj))
    /\ outcome = aOutcome
    /\ reqLog = aReqLog

====
